---------------------------- MODULE Spec2Model ----------------------------
(***************************************************************************)
(* A model of highlighter.py (snippet_highlighter).                        *)
(*                                                                         *)
(* Representation.  A Python string is a sequence of one-character         *)
(* strings, <<"i","s">> for 'is'; '' is <<>>.  A list of tokens is a       *)
(* sequence of such strings.  Python indices (0-based) are kept as they    *)
(* are: token i of a list is tokens[i + 1], and a scorecard is a function  *)
(* over 0 .. n-1.  None is a value no string equals.                       *)
(*                                                                         *)
(* Scores are Python floats (IEEE-754 doubles) and are added as doubles    *)
(* are: the order of the additions and the rounding of each decide which   *)
(* of two windows has the greater sum.  A score x, 0 <= x < 32, is the     *)
(* pair <<hi, lo>> with x = (hi * 2^30 + lo) * 2^-55; every double in that *)
(* range that the program computes is a multiple of 2^-55.                 *)
(***************************************************************************)
EXTENDS Integers, Sequences, FiniteSets, TLC

VARIABLES
    pc,              \* position of the operation under way
    doc, query,      \* arguments of highlight_doc / the text being tokenized
    hl,              \* the locals of highlight_doc when it returned
    tokens,          \* tokenize(doc, _TOKENIZE_DOC_RE)
    stem_index,      \* build_stem_index(tokens, stem_lookup)
    scorecard,       \* the scorecard score_index mutates
    prev_scorecard,  \* the scorecard as it was before the last score_index call
    score_fn,        \* the score_fn of the last score_index call
    calls,           \* number of score_index calls made on scorecard
    data_index,      \* start_index argument of find_best_terminal_token
    direction,       \* direction argument of find_best_terminal_token
    token_index,     \* value find_best_terminal_token returned
    val,             \* argument of english_suffix_stemmer
    stem1, stem2     \* english_suffix_stemmer(val), and the stemmer applied to that

vars == <<pc, doc, query, hl, tokens, stem_index, scorecard, prev_scorecard,
          score_fn, calls, data_index, direction, token_index, val, stem1, stem2>>

-----------------------------------------------------------------------------
(* Bounds of the model. *)

MaxPieces == 4        \* a document of the highlight_doc runs has at most this many pieces
MaxScorePieces == 3   \* pieces of a document of the scoring runs
MaxScoreCalls == 2    \* score_index calls made on one scorecard
MaxTextLen == 5       \* characters of a text of the tokenizer / boundary runs
MaxValLen == 3        \* characters of an enumerated stemmer argument

-----------------------------------------------------------------------------
(* Python values and string methods. *)

None == <<"<None>">>

\* None where the other values are token indices (integers)
NoIndex == -1

Min(a, b) == IF a < b THEN a ELSE b

Range(s) == {s[i] : i \in DOMAIN s}

RECURSIVE Flatten(_)
\* ''.join(list)
Flatten(list) ==
    IF list = <<>> THEN <<>> ELSE Head(list) \o Flatten(Tail(list))

LowerLetters ==
    <<"a","b","c","d","e","f","g","h","i","j","k","l","m",
      "n","o","p","q","r","s","t","u","v","w","x","y","z">>

UpperLetters ==
    <<"A","B","C","D","E","F","G","H","I","J","K","L","M",
      "N","O","P","Q","R","S","T","U","V","W","X","Y","Z">>

Digits == {"0","1","2","3","4","5","6","7","8","9"}

Whitespace == {" ", "\t", "\n", "\r"}

\* \w under re.UNICODE, for the characters of the model: letters, digits, underscore
IsWordChar(c) == c \in Range(LowerLetters) \cup Range(UpperLetters) \cup Digits \cup {"_"}

\* one character of str.lower()
LowerChar(c) ==
    IF c \in Range(UpperLetters)
    THEN LowerLetters[CHOOSE i \in DOMAIN UpperLetters : UpperLetters[i] = c]
    ELSE c

\* str.lower()
Lower(s) == [i \in DOMAIN s |-> LowerChar(s[i])]

RECURSIVE LStrip(_)
LStrip(s) ==
    IF s # <<>> /\ Head(s) \in Whitespace THEN LStrip(Tail(s)) ELSE s

RECURSIVE RStrip(_)
RStrip(s) ==
    IF s # <<>> /\ s[Len(s)] \in Whitespace THEN RStrip(SubSeq(s, 1, Len(s) - 1)) ELSE s

\* str.strip()
Strip(s) == RStrip(LStrip(s))

\* str.endswith(suffix)
EndsWith(s, suffix) ==
    /\ Len(suffix) <= Len(s)
    /\ SubSeq(s, Len(s) - Len(suffix) + 1, Len(s)) = suffix

\* whether sub occurs in s (Python's "sub in s")
Contains(s, sub) ==
    \E i \in 1 .. (Len(s) - Len(sub) + 1) : SubSeq(s, i, i + Len(sub) - 1) = sub

-----------------------------------------------------------------------------
(* Python floats. *)

RECURSIVE TwoTo(_)
TwoTo(n) == IF n = 0 THEN 1 ELSE 2 * TwoTo(n - 1)

\* 2^n for n in 0 .. 30
Pow2Table == [n \in 0 .. 30 |-> TwoTo(n)]

Pow2(n) == Pow2Table[n]

\* the radix of the low limb: a float is (hi * LimbRadix + lo) * 2^-55
LimbRadix == Pow2(30)

\* the literals 0.0, 1.0, 0.1 and 3.3
F0_0 == <<0, 0>>
F1_0 == <<33554432, 0>>
F0_1 == <<3355443, 214748365>>
F3_3 == <<110729625, 644245088>>

\* x < y, x <= y
FLess(x, y) == x[1] < y[1] \/ (x[1] = y[1] /\ x[2] < y[2])
FLeq(x, y) == x = y \/ FLess(x, y)

\* Number of low bits a sum of this size cannot keep: a double has 53
\* significant bits, so a value of at least 2^(52 + j) units is a multiple
\* of 2^j units.
RECURSIVE DroppedBits(_, _)
DroppedBits(hi, j) == IF hi < Pow2(23 + j) THEN j ELSE DroppedBits(hi, j + 1)

\* the exact value hi * LimbRadix + lo rounded to 53 significant bits, ties to even
FRound(hi, lo) ==
    LET j == DroppedBits(hi, 0)
        rem == lo % Pow2(j)
        odd == (lo \div Pow2(j)) % 2 = 1
        up == j > 0 /\ (2 * rem > Pow2(j) \/ (2 * rem = Pow2(j) /\ odd))
        lo2 == lo - rem + (IF up THEN Pow2(j) ELSE 0)
    IN  <<hi + (lo2 \div LimbRadix), lo2 % LimbRadix>>

\* x + y of two floats: the exact sum, rounded (x + 0.0 is x)
FAdd(x, y) ==
    IF y = F0_0 THEN x
    ELSE IF x = F0_0 THEN y
    ELSE LET lo == x[2] + y[2]
         IN  FRound(x[1] + y[1] + (lo \div LimbRadix), lo % LimbRadix)

-----------------------------------------------------------------------------
(* Module constants. *)

_STOP_WORDS ==
    { <<"i">>, <<"t","o">>, <<"i","t">>, <<"h","e">>, <<"s","h","e">>,
      <<"t","h","e","y">>, <<"m","e">>, <<"a","m">>, <<"i","s">>, <<"a","r","e">>,
      <<"b","e">>, <<"b","e","i","n","g">>, <<"b","e","e","n">>,
      <<"h","a","v","e">>, <<"h","a","s">>, <<"h","a","v","i","n","g">>,
      <<"h","a","d">>, <<"d","o">>, <<"d","o","e","s">>,
      <<"d","o","i","n","g">>, <<"d","i","d">> }

_SUFFIXES == << <<"s">>, <<"e","d">>, <<"i","n","g">>, <<"l","y">> >>

-----------------------------------------------------------------------------
(* tokenize *)

RECURSIVE Split(_, _, _, _)
\* re.split over term from character i on, cur being the text since the last
\* separator: every \W character ends a piece (possibly an empty one); with
\* the capturing group (keep) the separator is a piece of its own.
Split(term, i, cur, keep) ==
    IF i > Len(term) THEN <<cur>>
    ELSE IF ~IsWordChar(term[i])
         THEN <<cur>> \o (IF keep THEN << <<term[i]>> >> ELSE <<>>)
                      \o Split(term, i + 1, <<>>, keep)
         ELSE Split(term, i + 1, Append(cur, term[i]), keep)

\* the two compiled patterns: whether the separator is captured
_TOKENIZE_DOC_RE == TRUE
_TOKENIZE_QUERY_RE == FALSE

\* a plausible bug: the document pattern without its capturing group
tokenize_NoCapture(term, regex) ==
    IF term = <<>> THEN <<>> ELSE Split(term, 1, <<>>, FALSE)

tokenize(term, regex) ==
    IF term = <<>> THEN <<>> ELSE Split(term, 1, <<>>, regex)

-----------------------------------------------------------------------------
(* english_suffix_stemmer *)

RECURSIVE StripSuffix(_, _)
\* the for loop over _SUFFIXES from suffix number k on: first match wins
StripSuffix(v, k) ==
    IF k > Len(_SUFFIXES) THEN v
    ELSE IF EndsWith(v, _SUFFIXES[k])
         THEN SubSeq(v, 1, Len(v) - Len(_SUFFIXES[k]))
         ELSE StripSuffix(v, k + 1)

\* a plausible bug: the stop-word test made before the suffix is removed
english_suffix_stemmer_StopFirst(v) ==
    LET w == Strip(Lower(v))
    IN  IF w \in _STOP_WORDS THEN <<>> ELSE StripSuffix(w, 1)

english_suffix_stemmer(v) ==
    LET w == StripSuffix(Strip(Lower(v)), 1)
    IN  IF w \in _STOP_WORDS THEN <<>> ELSE w

-----------------------------------------------------------------------------
(* build_scorecard, build_stem_index, score_index *)

\* [starting_score] * len(data), positions 0 .. len(data)-1
build_scorecard(data, starting_score) ==
    [i \in 0 .. (Len(data) - 1) |-> starting_score]

\* dict.get(key): None when the key is absent
Get(dict, key) == IF key \in DOMAIN dict THEN dict[key] ELSE None

\* dict((token, stemmer(token)) for token in token_list)
StemLookup(token_list) ==
    [t \in Range(token_list) |-> english_suffix_stemmer(t)]

\* index.setdefault(stem, []).append(location)
SetDefaultAppend(index, stem, location) ==
    [s \in DOMAIN index \cup {stem} |->
        IF s = stem
        THEN (IF stem \in DOMAIN index THEN Append(index[stem], location)
              ELSE <<location>>)
        ELSE index[s]]

RECURSIVE BuildStemIndexFrom(_, _, _, _, _)
\* the loop of build_stem_index from token number k on
BuildStemIndexFrom(token_list, stem_lookup, k, cur_pos, index) ==
    IF k > Len(token_list) THEN index
    ELSE LET token == token_list[k]
             token_len == Len(token)
             stem == IF token # <<>> THEN Get(stem_lookup, token) ELSE None
             recorded == stem # None /\ stem # <<>>
         IN  BuildStemIndexFrom(token_list, stem_lookup, k + 1, cur_pos + token_len,
                 IF recorded
                 THEN SetDefaultAppend(index, stem, <<cur_pos, cur_pos + token_len>>)
                 ELSE index)

build_stem_index(token_list, stem_lookup) ==
    BuildStemIndexFrom(token_list, stem_lookup, 1, 0, [s \in {} |-> <<>>])

\* a plausible bug: the query-match lambda returns 0.0 on both branches
CallScoreFn_MatchUnscored(fn, stem) ==
    CASE fn.name = "query_match" -> F0_0
      [] fn.name = "sentiment"   -> (IF stem \in fn.stems THEN F0_1 ELSE F0_0)
      [] fn.name = "constant"    -> F3_3
      [] fn.name = "longer"      -> (IF Len(stem) > 1 THEN F1_0 ELSE F0_0)

\* The scoring functions: query_match and sentiment are the two lambdas of
\* highlight_doc; constant and longer are the two lambdas of the test.
CallScoreFn(fn, stem) ==
    CASE fn.name = "query_match" -> (IF stem \in fn.stems THEN F1_0 ELSE F0_0)
      [] fn.name = "sentiment"   -> (IF stem \in fn.stems THEN F0_1 ELSE F0_0)
      [] fn.name = "constant"    -> F3_3
      [] fn.name = "longer"      -> (IF Len(stem) > 1 THEN F1_0 ELSE F0_0)

\* a plausible bug: the whole token's range (start, end) is scored
ScoredRun_WholeToken(stem, location) == location[1] .. (location[2] - 1)

\* xrange(start, start + len(stem)) for one location (start, end)
ScoredRun(stem, location) == location[1] .. (location[1] + Len(stem) - 1)

RECURSIVE ScoreLocations(_, _, _, _, _)
\* the inner loops of score_index for one stem, from location number k on
ScoreLocations(stem, locations, k, card, fn) ==
    IF k > Len(locations) THEN card
    ELSE LET score == CallScoreFn(fn, stem)
             run == ScoredRun(stem, locations[k])
         IN  ScoreLocations(stem, locations, k + 1,
                 [i \in DOMAIN card |->
                     IF i \in run THEN FAdd(card[i], score) ELSE card[i]],
                 fn)

RECURSIVE ScoreStems(_, _, _, _)
\* the outer loop of score_index over the stems not yet visited
ScoreStems(index, stems, card, fn) ==
    IF stems = {} THEN card
    ELSE LET stem == CHOOSE s \in stems : TRUE
         IN  ScoreStems(index, stems \ {stem},
                 ScoreLocations(stem, index[stem], 1, card, fn), fn)

\* scorecard[i] raises IndexError for a position past the end of the scorecard
ScoreIndexRaises(index, card) ==
    \E stem \in DOMAIN index : \E k \in DOMAIN index[stem] :
        \E i \in ScoredRun(stem, index[stem][k]) : i \notin DOMAIN card

\* the scorecard after score_index(index, card, fn)
score_index(index, card, fn) == ScoreStems(index, DOMAIN index, card, fn)

-----------------------------------------------------------------------------
(* get_window_scores and the choice of the top window *)

RECURSIVE SumFrom(_, _, _, _)
SumFrom(card, a, b, acc) ==
    IF a >= b THEN acc ELSE SumFrom(card, a + 1, b, FAdd(acc, card[a]))

\* sum(scorecard[a:b]): the values added from the left, starting from 0
SumSlice(card, a, b) == SumFrom(card, a, b, F0_0)

RECURSIVE WindowsFrom(_, _, _)
WindowsFrom(card, cur_index, end_index) ==
    IF end_index < Cardinality(DOMAIN card)
    THEN << <<SumSlice(card, cur_index, end_index), cur_index, end_index>> >>
         \o WindowsFrom(card, cur_index + 1, end_index + 1)
    ELSE <<>>

get_window_scores(card, window_size) == WindowsFrom(card, 0, window_size)

RECURSIVE InsertByKey(_, _)
\* item put after every element whose key is not greater: a stable insertion
\* for the key -item[0] (-a <= -b exactly when b <= a)
InsertByKey(sorted, item) ==
    IF sorted = <<>> THEN <<item>>
    ELSE IF FLeq(item[1], Head(sorted)[1])
         THEN <<Head(sorted)>> \o InsertByKey(Tail(sorted), item)
         ELSE <<item>> \o sorted

RECURSIVE SortFrom(_, _, _)
SortFrom(list, k, sorted) ==
    IF k > Len(list) THEN sorted
    ELSE SortFrom(list, k + 1, InsertByKey(sorted, list[k]))

\* a plausible bug: the sort key without its minus sign (ascending scores)
SortByScore_Ascending(list) ==
    LET RECURSIVE Ins(_, _)
        Ins(sorted, item) ==
            IF sorted = <<>> THEN <<item>>
            ELSE IF FLeq(Head(sorted)[1], item[1])
                 THEN <<Head(sorted)>> \o Ins(Tail(sorted), item)
                 ELSE <<item>> \o sorted
        RECURSIVE Go(_, _)
        Go(k, sorted) == IF k > Len(list) THEN sorted ELSE Go(k + 1, Ins(sorted, list[k]))
    IN  Go(1, <<>>)

\* scored_windows.sort(key=lambda item: -item[0]); list.sort is stable
SortByScore(list) == SortFrom(list, 1, <<>>)

-----------------------------------------------------------------------------
(* data_index_to_token_index, find_best_terminal_token *)

RECURSIVE TokenIndexFrom(_, _, _, _)
TokenIndexFrom(index_arg, token_list, k, index) ==
    IF k > Len(token_list) THEN NoIndex
    ELSE IF index_arg >= index /\ index_arg <= index + Len(token_list[k])
         THEN k - 1
         ELSE TokenIndexFrom(index_arg, token_list, k + 1, index + Len(token_list[k]))

data_index_to_token_index(index_arg, token_list) ==
    TokenIndexFrom(index_arg, token_list, 1, 0)

RECURSIVE TerminalLoop(_, _, _, _)
\* the while loop of find_best_terminal_token with token_index = at
TerminalLoop(at, token_list, sentence_terminals, dir) ==
    IF at > 0 /\ at < Len(token_list) - 1
    THEN LET next == at + dir
         IN  IF token_list[next + 1] \in sentence_terminals
             THEN (IF dir = -1 THEN next + 1 ELSE next)
             ELSE TerminalLoop(next, token_list, sentence_terminals, dir)
    ELSE at

\* For direction -1 or 1.  When data_index_to_token_index returns None the
\* loop condition None > 0 is False in Python 2 and None is returned.
find_best_terminal_token(start_index, token_list, sentence_terminals, dir) ==
    LET at == data_index_to_token_index(start_index, token_list)
    IN  IF at = NoIndex THEN NoIndex
        ELSE TerminalLoop(at, token_list, sentence_terminals, dir)

-----------------------------------------------------------------------------
(* highlight_doc *)

HIGHLIGHT == <<"[","[","H","I","G","H","L","I","G","H","T","]","]">>

ENDHIGHLIGHT == <<"[","[","E","N","D","H","I","G","H","L","I","G","H","T","]","]">>

ELLIPSIS == <<".",".",".">>

\* the window size highlight_doc passes to get_window_scores
WindowSize == 20

\* sentence_terminals = set(('.', ';', '!', '?'))
SentenceTerminals == { <<".">>, <<";">>, <<"!">>, <<"?">> }

PositiveWords ==
    << <<"l","o","v","e">>, <<"a","w","e","s","o","m","e">>, <<"g","r","e","a","t">>,
       <<"s","u","p","e","r">>, <<"d","e","l","i","c","i","o","u","s">>,
       <<"b","e","s","t">> >>

\* positive_stems = map(stemmer, (...)), as the set of its members
PositiveStems == {english_suffix_stemmer(PositiveWords[i]) : i \in DOMAIN PositiveWords}

\* [token for token in tokenize(query, _TOKENIZE_QUERY_RE) if token]
QueryTokens(q) == SelectSeq(tokenize(q, _TOKENIZE_QUERY_RE), LAMBDA t : t # <<>>)

\* set(stem_lookup[token] for token in query_tokens)
QueryStems(stem_lookup, query_tokens) == {stem_lookup[t] : t \in Range(query_tokens)}

\* a plausible bug: the test made against the positive stems
IsHighlighted_Positive(stem_lookup, query_stems, token) ==
    Get(stem_lookup, token) \in PositiveStems

\* stem_lookup.get(token) in query_stems
IsHighlighted(stem_lookup, query_stems, token) ==
    Get(stem_lookup, token) \in query_stems

RECURSIVE Markup(_, _, _, _)
\* the loop that fills markup_buffer, from token number k of the range on
Markup(token_range, k, stem_lookup, query_stems) ==
    IF k > Len(token_range) THEN <<>>
    ELSE (IF IsHighlighted(stem_lookup, query_stems, token_range[k])
          THEN <<HIGHLIGHT, token_range[k], ENDHIGHLIGHT>>
          ELSE <<token_range[k]>>)
         \o Markup(token_range, k + 1, stem_lookup, query_stems)

\* pre_start_token is not None and pre_start_token in sentence_terminals
PrependsEllipsis(pre_start_token) ==
    pre_start_token # None /\ pre_start_token \in SentenceTerminals

\* a plausible bug: the test of the leading ellipsis copied to the trailing one
AppendsEllipsis_InTerminals(post_end_token) ==
    post_end_token # None /\ post_end_token \in SentenceTerminals

\* post_end_token is not None and post_end_token not in sentence_terminals
AppendsEllipsis(post_end_token) ==
    post_end_token # None /\ post_end_token \notin SentenceTerminals

\* The second half of highlight_doc, from the choice of the top window on.
Snippet(doc_tokens, stem_lookup, query_stems, top_scored_window) ==
    LET starting_token_index ==
            find_best_terminal_token(top_scored_window[2], doc_tokens,
                                     SentenceTerminals, -1)
        ending_token_index ==
            find_best_terminal_token(top_scored_window[3], doc_tokens,
                                     SentenceTerminals, 1)
        \* doc_tokens[starting_token_index:ending_token_index + 1]
        slice == SubSeq(doc_tokens, starting_token_index + 1,
                        Min(ending_token_index + 1, Len(doc_tokens)))
        pre_start_token ==
            IF starting_token_index > 1 THEN doc_tokens[starting_token_index]
            ELSE None
        post_end_token ==
            IF ending_token_index < Len(doc_tokens) - 1
            THEN doc_tokens[ending_token_index + 2]
            ELSE None
        prepended == PrependsEllipsis(pre_start_token)
        appended == AppendsEllipsis(post_end_token)
        optimal_token_range ==
            (IF prepended THEN <<ELLIPSIS>> ELSE <<>>) \o slice
            \o (IF appended THEN <<ELLIPSIS>> ELSE <<>>)
        markup_buffer == Markup(optimal_token_range, 1, stem_lookup, query_stems)
    IN  [ starting_token_index |-> starting_token_index,
          ending_token_index  |-> ending_token_index,
          pre_start_token     |-> pre_start_token,
          post_end_token      |-> post_end_token,
          prepended           |-> prepended,
          appended            |-> appended,
          optimal_token_range |-> optimal_token_range,
          markup_buffer       |-> markup_buffer,
          result              |-> Flatten(markup_buffer) ]

\* The first half of highlight_doc, up to the sorted list of windows.
Scoring(d, q) ==
    LET doc_tokens == tokenize(d, _TOKENIZE_DOC_RE)
        query_tokens == QueryTokens(q)
        stem_lookup == StemLookup(doc_tokens \o query_tokens)
        index == build_stem_index(doc_tokens, stem_lookup)
        query_stems == QueryStems(stem_lookup, query_tokens)
        query_match_score_fn == [name |-> "query_match", stems |-> query_stems]
        sentiment_score_fn == [name |-> "sentiment", stems |-> PositiveStems]
        card == score_index(index,
                    score_index(index, build_scorecard(d, F0_0), query_match_score_fn),
                    sentiment_score_fn)
        windows == get_window_scores(card, WindowSize)
    IN  [ doc_tokens     |-> doc_tokens,
          query_tokens   |-> query_tokens,
          stem_lookup    |-> stem_lookup,
          stem_index     |-> index,
          query_stems    |-> query_stems,
          scorecard      |-> card,
          windows        |-> windows,
          scored_windows |-> SortByScore(windows) ]

\* the locals of highlight_doc when it returns, s being those of its first half
Returned(s) ==
    LET top_scored_window == s.scored_windows[1]
    IN  [ doc_tokens |-> s.doc_tokens, query_tokens |-> s.query_tokens,
          stem_lookup |-> s.stem_lookup, stem_index |-> s.stem_index,
          query_stems |-> s.query_stems, scorecard |-> s.scorecard,
          windows |-> s.windows, top_scored_window |-> top_scored_window,
          snippet |-> Snippet(s.doc_tokens, s.stem_lookup, s.query_stems,
                              top_scored_window) ]

-----------------------------------------------------------------------------
(* The inputs of the runs. *)

\* every string of at most n characters of alphabet
Strings(alphabet, n) == UNION {[1 .. k -> alphabet] : k \in 0 .. n}

\* The pieces documents are made of: 'x', '. has pizzas. ', 'love love ',
\* 'Is best! '.
Pieces ==
    { <<"x">>,
      <<"."," ","h","a","s"," ","p","i","z","z","a","s","."," ">>,
      <<"l","o","v","e"," ","l","o","v","e"," ">>,
      <<"I","s"," ","b","e","s","t","!"," ">> }

\* every concatenation of at most n pieces
DocsOf(n) == {Flatten(s) : s \in Strings(Pieces, n)}

\* the queries: '', 'x', 'loves pizza', 'is pizzas'
Queries ==
    { <<>>,
      <<"x">>,
      <<"l","o","v","e","s"," ","p","i","z","z","a">>,
      <<"i","s"," ","p","i","z","z","a","s">> }

\* texts of the tokenizer and boundary runs
TextAlphabet == {"a", ".", " "}

\* stemmer arguments: every short string of a small alphabet, every stop word
\* in lower case, in upper case and capitalised, and the words of the test
ValAlphabet == {"e", "h", "s", "l", "y", " ", "E"}

Upper(s) ==
    [i \in DOMAIN s |->
        IF s[i] \in Range(LowerLetters)
        THEN UpperLetters[CHOOSE k \in DOMAIN LowerLetters : LowerLetters[k] = s[i]]
        ELSE s[i]]

Capitalised(s) == IF s = <<>> THEN s ELSE SubSeq(Upper(s), 1, 1) \o Tail(s)

Vals ==
    Strings(ValAlphabet, MaxValLen)
    \cup _STOP_WORDS \cup {Upper(w) : w \in _STOP_WORDS}
    \cup {Capitalised(w) : w \in _STOP_WORDS}
    \cup { <<"c","r","e","a","t","e","d">>, <<"l","y">>,
           <<"H","E","L","L","O"," ","w","o","r","l","d">> }

\* the score functions of the scoring runs
ScoreFns ==
    { [name |-> "constant", stems |-> {}],
      [name |-> "longer", stems |-> {}],
      [name |-> "query_match", stems |-> {<<"p","i","z","z","a">>, <<"x">>}],
      [name |-> "sentiment", stems |-> PositiveStems] }

NoLocals == [none |-> TRUE]

-----------------------------------------------------------------------------
(* highlight_doc called on a document and a query. *)

IdleUnits ==
    /\ tokens = <<>> /\ stem_index = <<>> /\ scorecard = <<>> /\ prev_scorecard = <<>>
    /\ score_fn = NoLocals /\ calls = 0
    /\ data_index = 0 /\ direction = 0 /\ token_index = NoIndex
    /\ val = <<>> /\ stem1 = <<>> /\ stem2 = <<>>

Init ==
    /\ pc = "call"
    /\ doc \in DocsOf(MaxPieces)
    /\ query \in Queries
    /\ hl = NoLocals
    /\ IdleUnits

\* highlight_doc(doc, query): it returns, or scored_windows[0] raises IndexError
HighlightDoc ==
    /\ pc = "call"
    /\ LET s == Scoring(doc, query)
       IN  IF s.scored_windows = <<>>
           THEN /\ pc' = "raised"
                /\ hl' = hl
           ELSE /\ pc' = "returned"
                /\ hl' = Returned(s)
    /\ UNCHANGED <<doc, query, tokens, stem_index, scorecard, prev_scorecard, score_fn,
                   calls, data_index, direction, token_index, val, stem1, stem2>>

Next == HighlightDoc

Spec == Init /\ [][Next]_vars

-----------------------------------------------------------------------------
(* highlight_doc called on documents with a word as long as the window.   *)

\* a word of WindowSize characters
LongWord == [i \in 1 .. WindowSize |-> "x"]

\* The pieces of these documents: 'a. ', the long word, '.', ' a'.
EllipsisPieces ==
    { <<"a", ".", " ">>, LongWord, <<".">>, <<" ", "a">> }

\* every concatenation of at most n of these pieces
EllipsisDocsOf(n) == {Flatten(s) : s \in Strings(EllipsisPieces, n)}

\* the queries: '', the long word, 'a'
EllipsisQueries == { <<>>, LongWord, <<"a">> }

InitEllipsis ==
    /\ pc = "call"
    /\ doc \in EllipsisDocsOf(MaxPieces)
    /\ query \in EllipsisQueries
    /\ hl = NoLocals
    /\ IdleUnits

SpecEllipsis == InitEllipsis /\ [][Next]_vars

-----------------------------------------------------------------------------
(* english_suffix_stemmer applied to a string, and again to its result. *)

InitStem ==
    /\ pc = "stem"
    /\ val \in Vals
    /\ stem1 = <<>> /\ stem2 = <<>>
    /\ doc = <<>> /\ query = <<>> /\ hl = NoLocals
    /\ tokens = <<>> /\ stem_index = <<>> /\ scorecard = <<>> /\ prev_scorecard = <<>>
    /\ score_fn = NoLocals /\ calls = 0
    /\ data_index = 0 /\ direction = 0 /\ token_index = NoIndex

Stem ==
    /\ pc = "stem"
    /\ stem1' = english_suffix_stemmer(val)
    /\ pc' = "restem"
    /\ UNCHANGED <<doc, query, hl, tokens, stem_index, scorecard, prev_scorecard,
                   score_fn, calls, data_index, direction, token_index, val, stem2>>

Restem ==
    /\ pc = "restem"
    /\ stem2' = english_suffix_stemmer(stem1)
    /\ pc' = "stemmed"
    /\ UNCHANGED <<doc, query, hl, tokens, stem_index, scorecard, prev_scorecard,
                   score_fn, calls, data_index, direction, token_index, val, stem1>>

NextStem == Stem \/ Restem

SpecStem == InitStem /\ [][NextStem]_vars

-----------------------------------------------------------------------------
(* tokenize and find_best_terminal_token on a text. *)

InitBoundary ==
    /\ pc = "tokenize"
    /\ doc \in Strings(TextAlphabet, MaxTextLen)
    /\ query = <<>> /\ hl = NoLocals
    /\ tokens = <<>> /\ stem_index = <<>> /\ scorecard = <<>> /\ prev_scorecard = <<>>
    /\ score_fn = NoLocals /\ calls = 0
    /\ data_index = 0 /\ direction = 0 /\ token_index = NoIndex
    /\ val = <<>> /\ stem1 = <<>> /\ stem2 = <<>>

Tokenize ==
    /\ pc = "tokenize"
    /\ tokens' = tokenize(doc, _TOKENIZE_DOC_RE)
    /\ pc' = "tokenized"
    /\ UNCHANGED <<doc, query, hl, stem_index, scorecard, prev_scorecard, score_fn,
                   calls, data_index, direction, token_index, val, stem1, stem2>>

\* find_best_terminal_token(start_index, tokens, sentence_terminals, dir) with a
\* valid direction and a start_index inside the text
FindBestTerminalToken ==
    /\ pc = "tokenized"
    /\ \E start_index \in 0 .. Len(doc), dir \in {-1, 1} :
          /\ data_index' = start_index
          /\ direction' = dir
          /\ token_index' = find_best_terminal_token(start_index, tokens,
                                                     SentenceTerminals, dir)
    /\ pc' = "found"
    /\ UNCHANGED <<doc, query, hl, tokens, stem_index, scorecard, prev_scorecard,
                   score_fn, calls, val, stem1, stem2>>

\* raise Exception('Invalid direction, must be either -1 or 1')
FindBestTerminalTokenInvalid ==
    /\ pc = "tokenized"
    /\ \E start_index \in 0 .. Len(doc) :
          /\ data_index' = start_index
          /\ direction' = 0
    /\ pc' = "raised"
    /\ UNCHANGED <<doc, query, hl, tokens, stem_index, scorecard, prev_scorecard,
                   score_fn, calls, token_index, val, stem1, stem2>>

NextBoundary == Tokenize \/ FindBestTerminalToken \/ FindBestTerminalTokenInvalid

SpecBoundary == InitBoundary /\ [][NextBoundary]_vars

-----------------------------------------------------------------------------
(* build_stem_index and score_index on a document, as the test calls them. *)

InitScore ==
    /\ pc = "index"
    /\ doc \in DocsOf(MaxScorePieces)
    /\ query = <<>> /\ hl = NoLocals
    /\ tokens = <<>> /\ stem_index = <<>> /\ scorecard = <<>> /\ prev_scorecard = <<>>
    /\ score_fn = NoLocals /\ calls = 0
    /\ data_index = 0 /\ direction = 0 /\ token_index = NoIndex
    /\ val = <<>> /\ stem1 = <<>> /\ stem2 = <<>>

\* tokens = tokenize(doc, regex); stem_lookup = dict(...);
\* stem_index = build_stem_index(tokens, stem_lookup);
\* scorecard = build_scorecard(doc, 0.0)
BuildStemIndex ==
    /\ pc = "index"
    /\ tokens' = tokenize(doc, _TOKENIZE_DOC_RE)
    /\ stem_index' = build_stem_index(tokens', StemLookup(tokens'))
    /\ scorecard' = build_scorecard(doc, F0_0)
    /\ prev_scorecard' = scorecard'
    /\ pc' = "score"
    /\ UNCHANGED <<doc, query, hl, score_fn, calls, data_index, direction, token_index,
                   val, stem1, stem2>>

ScoreIndex ==
    /\ pc = "score"
    /\ calls < MaxScoreCalls
    /\ ~ScoreIndexRaises(stem_index, scorecard)
    /\ \E fn \in ScoreFns :
          /\ score_fn' = fn
          /\ scorecard' = score_index(stem_index, scorecard, fn)
    /\ prev_scorecard' = scorecard
    /\ calls' = calls + 1
    /\ UNCHANGED <<pc, doc, query, hl, tokens, stem_index, data_index, direction,
                   token_index, val, stem1, stem2>>

NextScore == BuildStemIndex \/ ScoreIndex

SpecScore == InitScore /\ [][NextScore]_vars

-----------------------------------------------------------------------------
(* Vocabulary of the properties. *)

\* 0-based offset in the text of token number k (1-based) of token_list
TokenOffset(token_list, k) == Len(Flatten(SubSeq(token_list, 1, k - 1)))

\* the token's stem is not empty and is the stem of some token of the query
MatchesQuery(token, query_tokens) ==
    /\ english_suffix_stemmer(token) # <<>>
    /\ \E q \in Range(query_tokens) :
          english_suffix_stemmer(q) = english_suffix_stemmer(token)

StemsOf(token_list) == {english_suffix_stemmer(t) : t \in Range(token_list)}

\* some query-matching token stands between the two markers in the buffer
HasWrappedMatch(markup_buffer, query_tokens) ==
    \E i \in 1 .. (Len(markup_buffer) - 2) :
        /\ markup_buffer[i] = HIGHLIGHT
        /\ MatchesQuery(markup_buffer[i + 1], query_tokens)
        /\ markup_buffer[i + 2] = ENDHIGHLIGHT

RECURSIVE ExpectedMarkup(_, _, _)
\* the buffer in which exactly the query-matching document tokens are wrapped
ExpectedMarkup(token_range, k, query_tokens) ==
    IF k > Len(token_range) THEN <<>>
    ELSE (IF token_range[k] # ELLIPSIS /\ MatchesQuery(token_range[k], query_tokens)
          THEN <<HIGHLIGHT, token_range[k], ENDHIGHLIGHT>>
          ELSE <<token_range[k]>>)
         \o ExpectedMarkup(token_range, k + 1, query_tokens)

NoListedSuffix(s) == \A k \in DOMAIN _SUFFIXES : ~EndsWith(s, _SUFFIXES[k])

IsStopWord(token) == Lower(token) \in _STOP_WORDS

IsPunctuation(token) ==
    token # <<>> /\ \A i \in DOMAIN token : ~IsWordChar(token[i]) /\ token[i] \notin Whitespace

IsTerminalAt(token_list, j) == token_list[j + 1] \in SentenceTerminals

-----------------------------------------------------------------------------
(* C1: highlight_doc never fails on boundary inputs: for every document,   *)
(* the empty one and those of at most 20 characters included, and every    *)
(* query, the call returns a string and raises no error.                   *)
C1_NeverRaises == pc # "raised"

(* C2: when highlight_doc returns, a document token of the snippet is      *)
(* wrapped in the markers exactly when its stem is not empty and is the    *)
(* stem of a query token; every other token, the ellipsis included, is     *)
(* emitted as it is.  Also for queries that contain stop words.            *)
C2_WrappedIffQueryStem ==
    pc = "returned" =>
        hl.snippet.markup_buffer =
            ExpectedMarkup(hl.snippet.optimal_token_range, 1, hl.query_tokens)

(* C3: no-match guarantee: when no stem of a query token is the stem of a  *)
(* document token, the returned string contains neither marker.            *)
C3_NoMatchNoMarkers ==
    (pc = "returned" /\ StemsOf(hl.query_tokens) \cap StemsOf(hl.doc_tokens) = {})
    => /\ ~Contains(hl.snippet.result, HIGHLIGHT)
       /\ ~Contains(hl.snippet.result, ENDHIGHLIGHT)

\* a query with words, none of them in the document, whose snippet holds a
\* positive-sentiment word
C3_Witness ==
    /\ pc = "returned"
    /\ hl.query_tokens # <<>>
    /\ StemsOf(hl.query_tokens) \cap StemsOf(hl.doc_tokens) = {}
    /\ \E t \in Range(hl.snippet.optimal_token_range) :
          english_suffix_stemmer(t) \in PositiveStems
    /\ ~Contains(hl.snippet.result, HIGHLIGHT)

(* C4: document tokenization is lossless: for every non-empty document,    *)
(* the tokens of tokenize(D, _TOKENIZE_DOC_RE) concatenated in order are D. *)
C4_TokenizeLossless ==
    (pc \in {"tokenized", "found", "raised"} /\ doc # <<>>) => Flatten(tokens) = doc

\* a text with two separators in a row (an empty token between them)
C4_Witness ==
    /\ pc = "tokenized"
    /\ \E k \in 2 .. (Len(tokens) - 1) :
          tokens[k] = <<>> /\ tokens[k - 1] = <<".">> /\ tokens[k + 1] = <<" ">>
    /\ \E k \in DOMAIN tokens : Len(tokens[k]) > 1
    /\ Flatten(tokens) = doc

(* C5: window selection is an argmax with lowest-start tie-break: for a    *)
(* scorecard of length n > 20 the selected window is [s, s+20) with        *)
(* s + 20 < n, its score is the sum of its scorecard values, no generated  *)
(* window (one for every start s >= 0 with s + 20 < n) has a greater sum,  *)
(* and none with an equal sum starts lower.                                *)
C5_TopWindowIsFirstMaximum ==
    pc = "returned" =>
        LET n == Len(doc)
            top == hl.top_scored_window
        IN  /\ n > WindowSize
            /\ Cardinality(DOMAIN hl.scorecard) = n
            /\ Len(hl.windows) = n - WindowSize
            /\ \A k \in DOMAIN hl.windows :
                  /\ hl.windows[k][2] = k - 1
                  /\ hl.windows[k][3] = k - 1 + WindowSize
            /\ top \in Range(hl.windows)
            /\ top[1] = SumSlice(hl.scorecard, top[2], top[3])
            /\ \A k \in DOMAIN hl.windows :
                  /\ FLeq(hl.windows[k][1], top[1])
                  /\ hl.windows[k][1] = top[1] => top[2] <= hl.windows[k][2]

\* the selected window starts after a window of lower score and before a
\* window of equal score
C5_Witness ==
    /\ pc = "returned"
    /\ \E k \in DOMAIN hl.windows :
          /\ hl.windows[k][2] < hl.top_scored_window[2]
          /\ FLess(hl.windows[k][1], hl.top_scored_window[1])
    /\ \E k \in DOMAIN hl.windows :
          /\ hl.windows[k][2] > hl.top_scored_window[2]
          /\ hl.windows[k][1] = hl.top_scored_window[1]

C6_MatchBeforeLastChar ==
    \E k \in DOMAIN hl.doc_tokens :
        /\ MatchesQuery(hl.doc_tokens[k], hl.query_tokens)
        /\ TokenOffset(hl.doc_tokens, k) < Len(doc) - 1

\* every document token with a positive-sentiment stem matches the query
C6_PositiveTokensMatch ==
    \A t \in Range(hl.doc_tokens) :
        english_suffix_stemmer(t) \in PositiveStems => MatchesQuery(t, hl.query_tokens)

C7_StopWordsAndPunctuationUnscored ==
    pc = "score" =>
        \A k \in DOMAIN tokens :
            (IsStopWord(tokens[k]) \/ IsPunctuation(tokens[k])) =>
                LET start == TokenOffset(tokens, k)
                IN  /\ english_suffix_stemmer(tokens[k]) = <<>>
                    /\ \A stem \in DOMAIN stem_index : \A n \in DOMAIN stem_index[stem] :
                          stem_index[stem][n][1] # start
                    /\ \A i \in start .. (start + Len(tokens[k]) - 1) :
                          scorecard[i] = prev_scorecard[i]

(* C8, as stated: stemmer idempotence: for every string x, if stem(x) ends *)
(* with none of the suffixes s, ed, ing, ly then stem(stem(x)) = stem(x).  *)
C8_StemmerIdempotent ==
    (pc = "stemmed" /\ NoListedSuffix(stem1)) => stem2 = stem1

(* C8, amended: for every string x, if stem(x) ends with none of the       *)
(* suffixes s, ed, ing, ly and does not end with whitespace, then          *)
(* stem(stem(x)) = stem(x).                                                *)
C8_StemmerIdempotentAmended ==
    (/\ pc = "stemmed"
     /\ NoListedSuffix(stem1)
     /\ (stem1 = <<>> \/ stem1[Len(stem1)] \notin Whitespace))
    => stem2 = stem1

\* a suffix was removed from a mixed-case argument and the stem is stable
C8_Witness ==
    /\ pc = "stemmed"
    /\ stem1 # <<>>
    /\ Len(stem1) < Len(Strip(val))
    /\ Lower(val) # val
    /\ NoListedSuffix(stem1)
    /\ stem1[Len(stem1)] \notin Whitespace
    /\ stem2 = stem1

(* C9: effect of one score_index call on an index built by                 *)
(* build_stem_index: for every stem and every recorded range (start, end)  *)
(* of it, the positions start .. start+len(stem)-1 are increased by        *)
(* score_fn(stem); every other position keeps its value; the scorecard     *)
(* keeps its length and no position outside it is touched.                 *)
C9_ScoreIndexEffect ==
    (pc = "score" /\ calls > 0) =>
        LET Runs == {<<stem, n>> : stem \in DOMAIN stem_index, n \in 1 .. Len(tokens)}
            Recorded == {r \in Runs : r[2] \in DOMAIN stem_index[r[1]]}
            RunOf(r) == LET start == stem_index[r[1]][r[2]][1]
                        IN  start .. (start + Len(r[1]) - 1)
        IN  /\ DOMAIN scorecard = 0 .. (Len(doc) - 1)
            /\ DOMAIN prev_scorecard = DOMAIN scorecard
            /\ \A r \in Recorded :
                  /\ RunOf(r) \subseteq DOMAIN scorecard
                  /\ \A i \in RunOf(r) :
                        scorecard[i] = FAdd(prev_scorecard[i], CallScoreFn(score_fn, r[1]))
            /\ \A i \in DOMAIN scorecard :
                  (\A r \in Recorded : i \notin RunOf(r)) => scorecard[i] = prev_scorecard[i]

\* a call that scored a stem shorter than its token: the stem's positions
\* were increased, the token's last position was not
C9_Witness ==
    /\ pc = "score"
    /\ calls > 0
    /\ \E stem \in DOMAIN stem_index : \E n \in DOMAIN stem_index[stem] :
          LET start == stem_index[stem][n][1]
              end == stem_index[stem][n][2]
          IN  /\ start + Len(stem) < end
              /\ CallScoreFn(score_fn, stem) # F0_0
              /\ scorecard[start] # prev_scorecard[start]
              /\ scorecard[end - 1] = prev_scorecard[end - 1]

(* C10: find_best_terminal_token snaps to the nearest sentence terminator  *)
(* in the given direction: with k the index of the token enclosing the     *)
(* offset, direction -1 returns j+1 for the greatest j < k whose token is  *)
(* a terminator, or 0 when there is none; direction +1 returns the least   *)
(* j > k whose token is a terminator, or the last index when there is      *)
(* none.  For every k, k = 0 and k = last index included.                  *)
C10_SnapsToNearestTerminator ==
    pc = "found" =>
        LET k == data_index_to_token_index(data_index, tokens)
            last == Len(tokens) - 1
            Before == {j \in 0 .. (k - 1) : IsTerminalAt(tokens, j)}
            After == {j \in (k + 1) .. last : IsTerminalAt(tokens, j)}
        IN  k # NoIndex =>
              /\ direction = -1 =>
                    token_index = (IF Before = {} THEN 0
                                   ELSE 1 + CHOOSE j \in Before : \A i \in Before : i <= j)
              /\ direction = 1 =>
                    token_index = (IF After = {} THEN last
                                   ELSE CHOOSE j \in After : \A i \in After : j <= i)

\* the snippet of highlight_doc without its ellipsis markers:
\* doc_tokens[starting_token_index:ending_token_index + 1]
SnippetSlice ==
    SubSeq(hl.doc_tokens, hl.snippet.starting_token_index + 1,
           Min(hl.snippet.ending_token_index + 1, Len(hl.doc_tokens)))

\* a token exists at index i (0-based) of the document tokens
TokenExistsAt(i) == i >= 0 /\ i <= Len(hl.doc_tokens) - 1

C12_NoEllipsisAfterTerminator ==
    (/\ pc = "returned"
     /\ SnippetSlice # <<>>
     /\ SnippetSlice[Len(SnippetSlice)] \in SentenceTerminals)
    => LET r == hl.snippet.optimal_token_range
       IN  r[Len(r)] # ELLIPSIS

=============================================================================
